---------------------------- MODULE Spec2Model ----------------------------
(***************************************************************************)
(* Model of NuxtImageFallback.vue: an image component that walks through   *)
(* a de-duplicated list of candidate URLs on load errors, together with    *)
(* the helpers of helpers/image that build the resized URLs.               *)
(*                                                                         *)
(* A JavaScript string is modelled as a sequence of one-character strings, *)
(* so that lastIndexOf, slice, substring and template concatenation are    *)
(* computed as the code computes them.  An object with optional fields is  *)
(* a record whose DOMAIN holds exactly the fields that are present.        *)
(***************************************************************************)
EXTENDS Integers, Sequences, FiniteSets, TLC

(* ------------------------------ bounds --------------------------------- *)

\* imageKey is an unbounded counter in the code; operations that increment
\* it are enabled only below this value.
MaxKey == 4

\* currentIndex is incremented by every handleError call (also past the end
\* of the list); handleError is enabled only below this value.
MaxIndex == 5

\* Longest `sizes` array the host passes.
MaxSizes == 1

MaxSizesWide == 2

(* --------------------------- JavaScript strings ------------------------ *)

Min(a, b) == IF a < b THEN a ELSE b

Max(a, b) == IF a > b THEN a ELSE b

\* String.prototype.lastIndexOf(c): 0-based index of the last occurrence of
\* the character c, -1 when there is none.
lastIndexOf(s, c) ==
    LET hits == {i \in 1..Len(s) : s[i] = c}
    IN IF hits = {} THEN -1
       ELSE (CHOOSE i \in hits : \A k \in hits : k <= i) - 1

\* String.prototype.slice(start, end): a negative argument counts from the
\* end of the string, both are clamped to [0, length].
slice(s, start, end) ==
    LET n    == Len(s)
        from == IF start < 0 THEN Max(n + start, 0) ELSE Min(start, n)
        to   == IF end < 0 THEN Max(n + end, 0) ELSE Min(end, n)
    IN IF from < to THEN SubSeq(s, from + 1, to) ELSE <<>>

\* slice(start) with the end omitted.
sliceFrom(s, start) == slice(s, start, Len(s))

\* String.prototype.substring(start, end): negative arguments are taken as
\* 0, and the two are swapped when start > end.
substring(s, start, end) ==
    LET n  == Len(s)
        a  == Min(Max(start, 0), n)
        b  == Min(Max(end, 0), n)
        lo == Min(a, b)
        hi == Max(a, b)
    IN IF lo < hi THEN SubSeq(s, lo + 1, hi) ELSE <<>>

Digit(d) == <<"0", "1", "2", "3", "4", "5", "6", "7", "8", "9">>[d + 1]

\* `${n}` for a non-negative integer n: its decimal digits.
RECURSIVE NumToStr(_)
NumToStr(n) ==
    IF n < 10 THEN <<Digit(n)>>
    ELSE NumToStr(n \div 10) \o <<Digit(n % 10)>>

\* Presence and truthiness of an optional field of an object.
Has(o, f) == f \in DOMAIN o

TruthyNum(o, f) == Has(o, f) /\ o[f] # 0

TruthyStr(o, f) == Has(o, f) /\ o[f] # <<>>

\* The literal 'webp' (default of props.ext, last resort of extToUse).
Webp == <<"w", "e", "b", "p">>

(* ----------------------------- helpers/image --------------------------- *)

\* Mutant of makeResizedImageUrl: the size tag is appended after the
\* extension.
makeResizedImageUrlTagLast(a) ==
    LET indexOfLastDot == lastIndexOf(a.src, ".")
        baseUrl        == slice(a.src, 0, indexOfLastDot)
        sizes          == IF TruthyNum(a, "w") /\ TruthyNum(a, "h")
                          THEN <<"_", "_">> \o NumToStr(a.w) \o <<"x">> \o NumToStr(a.h)
                          ELSE <<>>
        extension      == IF TruthyStr(a, "ext")
                          THEN <<".">> \o a.ext
                          ELSE slice(a.src, indexOfLastDot, Len(a.src))
        densityString  == IF TruthyNum(a, "dens")
                          THEN <<" ">> \o NumToStr(a.dens) \o <<"x">>
                          ELSE <<>>
    IN baseUrl \o extension \o sizes \o densityString

\* makeResizedImageUrl({ src, w, h, dens, ext })
makeResizedImageUrl(a) ==
    LET indexOfLastDot == lastIndexOf(a.src, ".")
        baseUrl        == slice(a.src, 0, indexOfLastDot)
        sizes          == IF TruthyNum(a, "w") /\ TruthyNum(a, "h")
                          THEN <<"_", "_">> \o NumToStr(a.w) \o <<"x">> \o NumToStr(a.h)
                          ELSE <<>>
        extension      == IF TruthyStr(a, "ext")
                          THEN <<".">> \o a.ext
                          ELSE slice(a.src, indexOfLastDot, Len(a.src))
        densityString  == IF TruthyNum(a, "dens")
                          THEN <<" ">> \o NumToStr(a.dens) \o <<"x">>
                          ELSE <<>>
    IN baseUrl \o sizes \o extension \o densityString

(* ------------------------------- inputs -------------------------------- *)

Srcs == { <<"a", ".", "j">>, <<"a", ".", "w", "e", "b", "p">>, <<"a", ".", "b", ".", "j">> }

Exts == { Webp, <<>>, <<"j">> }

Widths == {0, 10}

Heights == {0, 3}

Variants == { [w |-> 1, h |-> 1], [w |-> 0, ext |-> <<"j">>] }

SizesArrays == UNION { [1..n -> Variants] : n \in 0..MaxSizes }

(* -------------------------------- state -------------------------------- *)

VARIABLES
    src, ext, w, h, sizes,   \* props
    urlCache,                \* Map: url -> boolean
    currentIndex,            \* ref, 0-based
    imageKey,                \* ref
    currentSrc,              \* ref
    console,                 \* what the last operation wrote to the console
    lastOp,                  \* the last operation that ran
    run,                     \* observer: handleError calls and error signals since
                             \* the last initializeImage; fresh = the cache was empty
                             \* then and only handleError has run since; shown = the
                             \* urls rendered since then (since the last change of
                             \* fallbackUrls)
    initRun,                 \* observer: how many initializeImage runs in a row saw
                             \* the same props (0 after any other operation)
    helper,                  \* the last direct call of a helpers/image function
    other,                   \* a second instance of the component on the same page
    host                     \* the image loads the rendered <img> elements have
                             \* started, and what became of them

vars == <<src, ext, w, h, sizes, urlCache, currentIndex, imageKey, currentSrc,
          console, lastOp, run, initRun, helper, other, host>>

\* What the component's own handlers never touch.
outside == <<helper, other, host>>

NoCall == [fn |-> "none"]

Unmounted == [mounted |-> FALSE]

HostIdle == [tracked |-> FALSE]

\* No helper call, no second instance and no load tracking: the single
\* component on its own.
Alone == helper = NoCall /\ other = Unmounted /\ host = HostIdle

(* ------------------------------ computed ------------------------------- *)

\* computed srcWithExt, as a function of the props it reads
srcWithExtOf(s, e) ==
    LET indexOfLastDot == lastIndexOf(s, ".")
        baseUrl        == slice(s, 0, indexOfLastDot)
        extension      == IF e # <<>> THEN <<".">> \o e
                          ELSE sliceFrom(s, indexOfLastDot)
    IN baseUrl \o extension

srcWithExt == srcWithExtOf(src, ext)

\* The url pushed for one entry of props.sizes (body of the forEach).
sizeUrl(s, e, pw, ph, size) ==
    LET extToUse   == IF TruthyStr(size, "ext") THEN size.ext
                      ELSE IF e # <<>> THEN e ELSE Webp
        baseUrl    == substring(s, 0, lastIndexOf(s, "."))
        urlWithExt == baseUrl \o <<".">> \o extToUse
    IN makeResizedImageUrl([src |-> urlWithExt,
                            w   |-> IF TruthyNum(size, "w") THEN size.w ELSE pw,
                            h   |-> IF TruthyNum(size, "h") THEN size.h ELSE ph])

\* The array `urls` before de-duplication.
rawUrls(s, e, pw, ph, sz) ==
    <<makeResizedImageUrl([src |-> srcWithExtOf(s, e), w |-> pw, h |-> ph])>>
    \o [i \in 1..Len(sz) |-> sizeUrl(s, e, pw, ph, sz[i])]
    \o <<srcWithExtOf(s, e)>>

\* Mutant of SetSpread: a repeated value moves to the place of its last
\* occurrence.
RECURSIVE SetSpreadKeepLast(_, _)
SetSpreadKeepLast(urls, acc) ==
    IF urls = <<>> THEN acc
    ELSE SetSpreadKeepLast(Tail(urls),
                           Append(SelectSeq(acc, LAMBDA u : u # Head(urls)), Head(urls)))

\* [...new Set(urls)]: a Set iterates in insertion order, and inserting a
\* value it already holds changes nothing.
RECURSIVE SetSpread(_, _)
SetSpread(urls, acc) ==
    IF urls = <<>> THEN acc
    ELSE SetSpread(Tail(urls),
                   IF \E i \in 1..Len(acc) : acc[i] = Head(urls)
                   THEN acc ELSE Append(acc, Head(urls)))

fallbackUrlsOf(s, e, pw, ph, sz) == SetSpread(rawUrls(s, e, pw, ph, sz), <<>>)

\* computed fallbackUrls
fallbackUrls == fallbackUrlsOf(src, ext, w, h, sizes)

\* fallbackUrls.value[i] for a 0-based i inside the array
At(urls, i) == urls[i + 1]

(* ------------------------------ urlCache ------------------------------- *)

EmptyMap == [u \in {} |-> FALSE]

MapSet(m, k, v) == [u \in DOMAIN m \cup {k} |-> IF u = k THEN v ELSE m[u]]

MapHas(m, k) == k \in DOMAIN m

(* ----------------------------- operations ------------------------------ *)

\* Mutant of initializeImage: the cache is cleared with the cursor.
initializeImageClearCache(st, urls) ==
    [st EXCEPT !.currentIndex = 0,
               !.currentSrc   = IF urls # <<>> /\ urls[1] # <<>> THEN urls[1] ELSE <<>>,
               !.imageKey     = st.imageKey + 1,
               !.urlCache     = EmptyMap]

\* Mutant of initializeImage: the cursor is not put back to 0.
initializeImageKeepIndex(st, urls) ==
    [st EXCEPT !.currentSrc   = IF urls # <<>> /\ urls[1] # <<>> THEN urls[1] ELSE <<>>,
               !.imageKey     = st.imageKey + 1]

\* initializeImage, on the refs; urls is fallbackUrls.value when it runs.
initializeImage(st, urls) ==
    [st EXCEPT !.currentIndex = 0,
               !.currentSrc   = IF urls # <<>> /\ urls[1] # <<>> THEN urls[1] ELSE <<>>,
               !.imageKey     = st.imageKey + 1]

\* Mutant of handleError: the next url is shown without asking the cache.
handleErrorNoSkip(st, urls) ==
    LET failedUrl == st.currentSrc
        cache     == MapSet(st.urlCache, failedUrl, FALSE)
        warned    == Append(st.console, [level |-> "warn", url |-> failedUrl])
        index     == st.currentIndex + 1
    IN IF index >= Len(urls)
       THEN [st EXCEPT !.urlCache     = cache,
                       !.currentIndex = index,
                       !.console      = Append(warned, [level |-> "error", urls |-> urls])]
       ELSE [st EXCEPT !.urlCache     = cache,
                       !.currentIndex = index,
                       !.currentSrc   = At(urls, index),
                       !.imageKey     = st.imageKey + 1,
                       !.console      = Append(warned,
                                          [level |-> "info", url |-> At(urls, index)])]

\* Mutant of handleError: a url is skipped as soon as the cache has an entry
\* for it, and the url after a skipped one is shown without asking the cache.
handleErrorSkipOnce(st, urls) ==
    LET failedUrl == st.currentSrc
        cache     == MapSet(st.urlCache, failedUrl, FALSE)
        warned    == Append(st.console, [level |-> "warn", url |-> failedUrl])
        first     == st.currentIndex + 1
        index     == IF first < Len(urls) /\ MapHas(cache, At(urls, first))
                     THEN first + 1 ELSE first
        out       == IF index = first THEN warned
                     ELSE Append(warned, [level |-> "warn", url |-> failedUrl])
    IN IF index >= Len(urls)
       THEN [st EXCEPT !.urlCache     = cache,
                       !.currentIndex = index,
                       !.console      = Append(out, [level |-> "error", urls |-> urls])]
       ELSE [st EXCEPT !.urlCache     = cache,
                       !.currentIndex = index,
                       !.currentSrc   = At(urls, index),
                       !.imageKey     = st.imageKey + 1,
                       !.console      = Append(out,
                                          [level |-> "info", url |-> At(urls, index)])]

\* Mutant of handleError: on exhaustion the image is re-rendered once more.
RECURSIVE handleErrorRerenderAtEnd(_, _)
handleErrorRerenderAtEnd(st, urls) ==
    LET failedUrl == st.currentSrc
        cache     == MapSet(st.urlCache, failedUrl, FALSE)
        warned    == Append(st.console, [level |-> "warn", url |-> failedUrl])
        index     == st.currentIndex + 1
    IN IF index >= Len(urls)
       THEN [st EXCEPT !.urlCache     = cache,
                       !.currentIndex = index,
                       !.imageKey     = st.imageKey + 1,
                       !.console      = Append(warned, [level |-> "error", urls |-> urls])]
       ELSE LET nextUrl == At(urls, index)
            IN IF MapHas(cache, nextUrl) /\ ~cache[nextUrl]
               THEN handleErrorRerenderAtEnd([st EXCEPT !.urlCache     = cache,
                                                        !.currentIndex = index,
                                                        !.console      = warned], urls)
               ELSE [st EXCEPT !.urlCache     = cache,
                               !.currentIndex = index,
                               !.currentSrc   = nextUrl,
                               !.imageKey     = st.imageKey + 1,
                               !.console      = Append(warned,
                                                  [level |-> "info", url |-> nextUrl])]

\* Mutant of handleError: currentSrc is moved to the skipped url before the
\* recursive call, so the skipped url is warned about and recorded.
RECURSIVE handleErrorRecordSkipped(_, _)
handleErrorRecordSkipped(st, urls) ==
    LET failedUrl == st.currentSrc
        cache     == MapSet(st.urlCache, failedUrl, FALSE)
        warned    == Append(st.console, [level |-> "warn", url |-> failedUrl])
        index     == st.currentIndex + 1
    IN IF index >= Len(urls)
       THEN [st EXCEPT !.urlCache     = cache,
                       !.currentIndex = index,
                       !.console      = Append(warned, [level |-> "error", urls |-> urls])]
       ELSE LET nextUrl == At(urls, index)
            IN IF MapHas(cache, nextUrl) /\ ~cache[nextUrl]
               THEN handleErrorRecordSkipped([st EXCEPT !.urlCache     = cache,
                                                        !.currentIndex = index,
                                                        !.currentSrc   = nextUrl,
                                                        !.console      = warned], urls)
               ELSE [st EXCEPT !.urlCache     = cache,
                               !.currentIndex = index,
                               !.currentSrc   = nextUrl,
                               !.imageKey     = st.imageKey + 1,
                               !.console      = Append(warned,
                                                  [level |-> "info", url |-> nextUrl])]

\* Mutant of handleError: the cursor is not advanced, the failed candidate is
\* rendered again.
handleErrorNoAdvance(st, urls) ==
    LET failedUrl == st.currentSrc
        cache     == MapSet(st.urlCache, failedUrl, FALSE)
        warned    == Append(st.console, [level |-> "warn", url |-> failedUrl])
        index     == st.currentIndex
    IN IF index >= Len(urls)
       THEN [st EXCEPT !.urlCache     = cache,
                       !.console      = Append(warned, [level |-> "error", urls |-> urls])]
       ELSE [st EXCEPT !.urlCache     = cache,
                       !.currentSrc   = At(urls, index),
                       !.imageKey     = st.imageKey + 1,
                       !.console      = Append(warned,
                                          [level |-> "info", url |-> At(urls, index)])]

\* handleError, on the refs, the cache and the console; it calls itself to
\* skip a url the cache holds as false.  currentSrc is not assigned before the
\* recursive call, so failedUrl is the same url at every level.
RECURSIVE handleError(_, _)
handleError(st, urls) ==
    LET failedUrl == st.currentSrc
        cache     == MapSet(st.urlCache, failedUrl, FALSE)
        warned    == Append(st.console, [level |-> "warn", url |-> failedUrl])
        index     == st.currentIndex + 1
    IN IF index >= Len(urls)
       THEN [st EXCEPT !.urlCache     = cache,
                       !.currentIndex = index,
                       !.console      = Append(warned, [level |-> "error", urls |-> urls])]
       ELSE LET nextUrl == At(urls, index)
            IN IF MapHas(cache, nextUrl) /\ ~cache[nextUrl]
               THEN handleError([st EXCEPT !.urlCache     = cache,
                                           !.currentIndex = index,
                                           !.console      = warned], urls)
               ELSE [st EXCEPT !.urlCache     = cache,
                               !.currentIndex = index,
                               !.currentSrc   = nextUrl,
                               !.imageKey     = st.imageKey + 1,
                               !.console      = Append(warned,
                                                  [level |-> "info", url |-> nextUrl])]

\* Number of console entries of one level.
Count(out, level) == Cardinality({k \in 1..Len(out) : out[k].level = level})

\* The mutable state the two operations work on, with an empty console.
Refs == [urlCache     |-> urlCache,
         currentIndex |-> currentIndex,
         currentSrc   |-> currentSrc,
         imageKey     |-> imageKey,
         console      |-> <<>>]

Store(st) ==
    /\ urlCache'     = st.urlCache
    /\ currentIndex' = st.currentIndex
    /\ currentSrc'   = st.currentSrc
    /\ imageKey'     = st.imageKey
    /\ console'      = st.console

\* State after setup(): `const urlCache = new Map()`, the three refs, and the
\* watch with { immediate: true } has run initializeImage once.
AfterSetup ==
    /\ urlCache = EmptyMap
    /\ LET st == initializeImage([urlCache |-> EmptyMap, currentIndex |-> 0,
                                  currentSrc |-> <<>>, imageKey |-> 0,
                                  console |-> <<>>],
                                 fallbackUrlsOf(src, ext, w, h, sizes))
       IN /\ currentIndex = st.currentIndex
          /\ currentSrc = st.currentSrc
          /\ imageKey = st.imageKey
    /\ console = <<>>
    /\ lastOp = "initializeImage"
    /\ run = [fresh |-> TRUE, calls |-> 0, errors |-> 0, shown |-> <<currentSrc>>,
              events |-> 0]
    /\ initRun = 1

Init ==
    /\ src \in Srcs
    /\ ext \in Exts
    /\ w \in Widths
    /\ h \in Heights
    /\ sizes \in SizesArrays
    /\ AfterSetup
    /\ Alone

\* The observer after a handleError call; events counts the calls made while
\* the cursor was inside the list.
RunAfterError ==
    [run EXCEPT
       !.calls  = IF run.fresh THEN @ + 1 ELSE @,
       !.errors = IF run.fresh THEN @ + Count(console', "error") ELSE @,
       !.shown  = IF imageKey' # imageKey THEN Append(@, currentSrc') ELSE @,
       !.events = IF currentIndex < Len(fallbackUrls) THEN @ + 1 ELSE @]

\* @error="handleError": the host reports that the load failed.
HandleError ==
    /\ currentIndex < MaxIndex
    /\ imageKey < MaxKey
    /\ Store(handleError(Refs, fallbackUrls))
    /\ lastOp' = "handleError"
    /\ run' = RunAfterError
    /\ initRun' = 0
    /\ UNCHANGED <<src, ext, w, h, sizes>>
    /\ UNCHANGED outside

\* The parent changes one of the watched props; the watcher on
\* [src, ext, w, h] then runs initializeImage against the new fallbackUrls.
WatchedPropChange ==
    /\ imageKey < MaxKey
    /\ \E s \in Srcs, e \in Exts, pw \in Widths, ph \in Heights :
        /\ \/ s # src /\ e = ext /\ pw = w /\ ph = h
           \/ s = src /\ e # ext /\ pw = w /\ ph = h
           \/ s = src /\ e = ext /\ pw # w /\ ph = h
           \/ s = src /\ e = ext /\ pw = w /\ ph # h
        /\ src' = s /\ ext' = e /\ w' = pw /\ h' = ph
        /\ Store(initializeImage(Refs, fallbackUrlsOf(s, e, pw, ph, sizes)))
    /\ lastOp' = "initializeImage"
    /\ run' = [fresh |-> DOMAIN urlCache = {}, calls |-> 0, errors |-> 0,
               shown |-> <<currentSrc'>>, events |-> 0]
    /\ initRun' = 1
    /\ UNCHANGED sizes
    /\ UNCHANGED outside

\* The parent passes another `sizes` array: fallbackUrls is recomputed, but
\* sizes is not among the watched sources, so nothing else runs.
SizesPropChange ==
    /\ \E sz \in SizesArrays : sz # sizes /\ sizes' = sz
    /\ console' = <<>>
    /\ lastOp' = "sizes"
    /\ run' = [fresh |-> FALSE, calls |-> 0, errors |-> 0, shown |-> <<currentSrc>>,
               events |-> 0]
    /\ initRun' = 0
    /\ UNCHANGED <<src, ext, w, h, urlCache, currentIndex, imageKey, currentSrc>>
    /\ UNCHANGED outside

Next == HandleError \/ WatchedPropChange \/ SizesPropChange

Spec == Init /\ [][Next]_vars

\* initializeImage called again while no watched prop has changed: the call the
\* idempotence law is about.  The watcher never makes it (it fires on a change),
\* so it is part of a specification of its own.
InitializeImageCall ==
    /\ imageKey < MaxKey
    /\ lastOp = "initializeImage"
    /\ Store(initializeImage(Refs, fallbackUrls))
    /\ lastOp' = "initializeImage"
    /\ run' = [fresh |-> DOMAIN urlCache = {}, calls |-> 0, errors |-> 0,
               shown |-> <<currentSrc'>>, events |-> 0]
    /\ initRun' = Min(initRun + 1, 2)
    /\ UNCHANGED <<src, ext, w, h, sizes>>
    /\ UNCHANGED outside

NextCall == Next \/ InitializeImageCall

SpecCall == Init /\ [][NextCall]_vars

(* ------------- the url list over a wider range of requests ------------ *)

Photo == <<"/", "i", "m", "g", "/", "p", "h", "o", "t", "o", ".", "j", "p", "g">>

\* The sources of Srcs, the example of the documentation, a source without
\* a dot and the empty default of props.src.
SrcsWide == Srcs \cup { Photo, <<"a", "b">>, <<>> }

WidthsWide == Widths \cup {100}

HeightsWide == Heights \cup {50}

\* `sizes` arrays of up to MaxSizesWide entries.
SizesArraysWide == UNION { [1..n -> Variants] : n \in 0..MaxSizesWide }

InitUrls ==
    /\ src \in SrcsWide
    /\ ext \in Exts
    /\ w \in WidthsWide
    /\ h \in HeightsWide
    /\ sizes \in SizesArraysWide
    /\ AfterSetup
    /\ Alone

\* WatchedPropChange, the new value drawn from the wider sets.
WidePropChange ==
    /\ imageKey < MaxKey
    /\ \E s \in SrcsWide, e \in Exts, pw \in WidthsWide, ph \in HeightsWide :
        /\ \/ s # src /\ e = ext /\ pw = w /\ ph = h
           \/ s = src /\ e # ext /\ pw = w /\ ph = h
           \/ s = src /\ e = ext /\ pw # w /\ ph = h
           \/ s = src /\ e = ext /\ pw = w /\ ph # h
        /\ src' = s /\ ext' = e /\ w' = pw /\ h' = ph
        /\ Store(initializeImage(Refs, fallbackUrlsOf(s, e, pw, ph, sizes)))
    /\ lastOp' = "initializeImage"
    /\ run' = [fresh |-> DOMAIN urlCache = {}, calls |-> 0, errors |-> 0,
               shown |-> <<currentSrc'>>, events |-> 0]
    /\ initRun' = 1
    /\ UNCHANGED sizes
    /\ UNCHANGED outside

\* SizesPropChange, the new array drawn from the wider set.
WideSizesChange ==
    /\ \E sz \in SizesArraysWide : sz # sizes /\ sizes' = sz
    /\ console' = <<>>
    /\ lastOp' = "sizes"
    /\ run' = [fresh |-> FALSE, calls |-> 0, errors |-> 0, shown |-> <<currentSrc>>,
               events |-> 0]
    /\ initRun' = 0
    /\ UNCHANGED <<src, ext, w, h, urlCache, currentIndex, imageKey, currentSrc>>
    /\ UNCHANGED outside

NextUrls == WidePropChange \/ WideSizesChange

SpecUrls == InitUrls /\ [][NextUrls]_vars

(* ------------------- helpers/image called directly -------------------- *)

\* An optional argument is a set with no element (left out) or one (given).
Opt(S) == {{}} \cup {{x} : x \in S}

Field(f, o) == IF o = {} THEN <<>> ELSE f :> (CHOOSE x \in o : TRUE)

\* The objects passed to makeResizedImageUrl: src, w and h given, ext and
\* dens given or left out.
HelperArgs ==
    { [src |-> s, w |-> pw, h |-> ph] @@ Field("ext", e) @@ Field("dens", d) :
        s \in Srcs \cup { Photo, <<"a", "b">> },
        pw \in WidthsWide, ph \in Heights,
        e \in Opt(Exts), d \in Opt({0, 2}) }

\* Some module calls makeResizedImageUrl; the component stays as it is.
InitHelper ==
    /\ src = Photo /\ ext = Webp /\ w = 100 /\ h = 50 /\ sizes = <<>>
    /\ AfterSetup
    /\ Alone

HelperCall ==
    /\ \E a \in HelperArgs :
          helper' = [fn |-> "makeResizedImageUrl", args |-> a,
                     url |-> makeResizedImageUrl(a)]
    /\ UNCHANGED <<src, ext, w, h, sizes, urlCache, currentIndex, imageKey,
                   currentSrc, console, lastOp, run, initRun, other, host>>

SpecHelper == InitHelper /\ [][HelperCall]_vars

(* ------------------ two instances on the same page -------------------- *)

MapUnion(m, n) ==
    [u \in DOMAIN m \cup DOMAIN n |-> IF u \in DOMAIN m THEN m[u] ELSE n[u]]

\* Mutant of cacheOfInstance: one Map at module level, which every instance
\* reads.
cacheOfModule(own, foreign) == MapUnion(own, foreign)

\* `const urlCache = new Map()` stands inside <script setup>, whose body runs
\* once for each instance: the handlers of an instance see the Map that its
\* own setup created, whatever another instance has put into its Map.
cacheOfInstance(own, foreign) == own

\* The props the two instances are given: the same image, any ext.
InstanceSrc == <<"a", ".", "j">>

\* setup() of the second instance.
MountOther(e, sz) ==
    LET st == initializeImage([urlCache |-> EmptyMap, currentIndex |-> 0,
                               currentSrc |-> <<>>, imageKey |-> 0,
                               console |-> <<>>],
                              fallbackUrlsOf(InstanceSrc, e, 10, 3, sz))
    IN [mounted |-> TRUE, src |-> InstanceSrc, ext |-> e, w |-> 10, h |-> 3,
        sizes |-> sz, urlCache |-> st.urlCache, currentIndex |-> st.currentIndex,
        currentSrc |-> st.currentSrc, imageKey |-> st.imageKey,
        console |-> st.console]

InitTwo ==
    /\ src = InstanceSrc /\ w = 10 /\ h = 3
    /\ ext \in Exts
    /\ sizes \in SizesArrays
    /\ AfterSetup
    /\ helper = NoCall /\ host = HostIdle
    /\ \E e \in Exts : other = MountOther(e, sizes)

OtherUrls == fallbackUrlsOf(other.src, other.ext, other.w, other.h, other.sizes)

OtherRefs == [urlCache     |-> cacheOfInstance(other.urlCache, urlCache),
              currentIndex |-> other.currentIndex,
              currentSrc   |-> other.currentSrc,
              imageKey     |-> other.imageKey,
              console      |-> <<>>]

StoreOther(st, e) ==
    other' = [other EXCEPT !.ext          = e,
                           !.urlCache     = st.urlCache,
                           !.currentIndex = st.currentIndex,
                           !.currentSrc   = st.currentSrc,
                           !.imageKey     = st.imageKey,
                           !.console      = st.console]

\* @error on the second instance.
OtherHandleError ==
    /\ other.currentIndex < MaxIndex
    /\ other.imageKey < MaxKey
    /\ StoreOther(handleError(OtherRefs, OtherUrls), other.ext)
    /\ lastOp' = "other.handleError"
    /\ UNCHANGED <<src, ext, w, h, sizes, urlCache, currentIndex, imageKey,
                   currentSrc, console, run, initRun, helper, host>>

\* The ext prop of the second instance changes; its watcher runs
\* initializeImage.
OtherExtChange ==
    /\ other.imageKey < MaxKey
    /\ \E e \in Exts :
          /\ e # other.ext
          /\ StoreOther(initializeImage(OtherRefs, fallbackUrlsOf(other.src, e,
                                            other.w, other.h, other.sizes)), e)
    /\ lastOp' = "other.initializeImage"
    /\ UNCHANGED <<src, ext, w, h, sizes, urlCache, currentIndex, imageKey,
                   currentSrc, console, run, initRun, helper, host>>

\* The ext prop of the first instance changes; its watcher runs
\* initializeImage (WatchedPropChange with the other three props fixed).
ExtChange ==
    /\ imageKey < MaxKey
    /\ \E e \in Exts :
          /\ e # ext
          /\ ext' = e
          /\ Store(initializeImage(Refs, fallbackUrlsOf(src, e, w, h, sizes)))
    /\ lastOp' = "initializeImage"
    /\ run' = [fresh |-> DOMAIN urlCache = {}, calls |-> 0, errors |-> 0,
               shown |-> <<currentSrc'>>, events |-> 0]
    /\ initRun' = 1
    /\ UNCHANGED <<src, w, h, sizes>>
    /\ UNCHANGED outside

NextTwo == HandleError \/ ExtChange \/ OtherHandleError \/ OtherExtChange

SpecTwo == InitTwo /\ [][NextTwo]_vars

(* --------------------- the loads of the <img> elements ----------------- *)

\* A load attempt: the <img> rendered under one key, and its url.
Attempt(key, url) == [key |-> key, url |-> url]

NoAttempt == Attempt(0, <<>>)

\* Mutant of handlesEvent: an event of a superseded <img> is dropped.
handlesEventOfCurrentKey(a, key) == a.key = key

\* @error="handleError" with handleError = (e) => ...: e is only passed on to
\* the recursive call, never read, so an error event is handled whichever
\* load attempt it comes from.
handlesEvent(a, key) == TRUE

\* One instance whose loads are followed: every render (a new key) starts a
\* load, which stays in flight until the host reports its outcome; nothing
\* cancels the load of a replaced <img>.
InitHost ==
    /\ src = InstanceSrc /\ w = 10 /\ h = 3
    /\ ext \in Exts
    /\ sizes \in SizesArrays
    /\ AfterSetup
    /\ helper = NoCall /\ other = Unmounted
    /\ host = [tracked  |-> TRUE,
               inflight |-> {Attempt(imageKey, currentSrc)},
               failed   |-> {},
               loaded   |-> FALSE,
               last     |-> NoAttempt]

\* The loads in flight after a step that resolved `done`.
InflightAfter(done) ==
    (host.inflight \ done)
    \cup (IF imageKey' # imageKey THEN {Attempt(imageKey', currentSrc')} ELSE {})

\* The load of attempt a fails and the error event reaches the component.
LoadError(a) ==
    /\ a \in host.inflight
    /\ currentIndex < MaxIndex
    /\ IF handlesEvent(a, imageKey)
       THEN /\ Store(handleError(Refs, fallbackUrls))
            /\ lastOp' = "handleError"
            /\ run' = RunAfterError
       ELSE /\ UNCHANGED <<urlCache, currentIndex, currentSrc, imageKey, run>>
            /\ console' = <<>>
            /\ lastOp' = "ignored"
    /\ initRun' = 0
    /\ host' = [host EXCEPT !.inflight = InflightAfter({a}),
                            !.failed   = @ \cup {a.url},
                            !.loaded   = IF imageKey' # imageKey THEN FALSE ELSE @,
                            !.last     = a]
    /\ UNCHANGED <<src, ext, w, h, sizes, helper, other>>

\* The load of attempt a succeeds; the component has no handler for that.
LoadSuccess(a) ==
    /\ a \in host.inflight
    /\ host' = [host EXCEPT !.inflight = @ \ {a},
                            !.loaded   = @ \/ a.key = imageKey,
                            !.last     = NoAttempt]
    /\ console' = <<>>
    /\ lastOp' = "load"
    /\ initRun' = 0
    /\ UNCHANGED <<src, ext, w, h, sizes, urlCache, currentIndex, imageKey,
                   currentSrc, run, helper, other>>

\* ExtChange, the new <img> starting its load.
ExtChangeHost ==
    /\ imageKey < MaxKey
    /\ \E e \in Exts :
          /\ e # ext
          /\ ext' = e
          /\ Store(initializeImage(Refs, fallbackUrlsOf(src, e, w, h, sizes)))
    /\ lastOp' = "initializeImage"
    /\ run' = [fresh |-> DOMAIN urlCache = {}, calls |-> 0, errors |-> 0,
               shown |-> <<currentSrc'>>, events |-> 0]
    /\ initRun' = 1
    /\ host' = [host EXCEPT !.inflight = InflightAfter({}),
                            !.loaded   = FALSE,
                            !.last     = NoAttempt]
    /\ UNCHANGED <<src, w, h, sizes, helper, other>>

LoadErrors == \E a \in host.inflight : LoadError(a)

LoadSuccesses == \E a \in host.inflight : LoadSuccess(a)

\* The load of the <img> now rendered comes to an end, one way or the other.
CurrentLoadEnds ==
    \E a \in host.inflight :
        a.key = imageKey /\ (LoadSuccess(a) \/ LoadError(a))

NextHost == LoadErrors \/ LoadSuccesses \/ ExtChangeHost

\* Every load of a rendered <img> ends; props change finitely often (MaxKey).
SpecHost == InitHost /\ [][NextHost]_vars /\ WF_vars(CurrentLoadEnds)

TypeOK ==
    /\ src \in Srcs /\ ext \in Exts /\ w \in Widths /\ h \in Heights
    /\ sizes \in SizesArrays
    /\ currentIndex \in 0..MaxIndex
    /\ imageKey \in 1..MaxKey
    /\ \A u \in DOMAIN urlCache : urlCache[u] \in BOOLEAN

(* ----------------------- vocabulary of the claims ---------------------- *)

\* The terminal state: the cursor is past the last candidate.
AllFailed == currentIndex >= Len(fallbackUrls)

\* A url the cache holds as false.
KnownBad(cache, u) == MapHas(cache, u) /\ cache[u] = FALSE

\* The last step changed none of the refs or the cache and wrote nothing.
NoOp ==
    /\ UNCHANGED <<urlCache, currentIndex, currentSrc, imageKey>>
    /\ console' = <<>>

\* Position of the first occurrence of u in a sequence that holds it.
FirstPos(seq, u) == CHOOSE i \in 1..Len(seq) :
                        seq[i] = u /\ \A k \in 1..(i - 1) : seq[k] # u

(* -------------------------------- claims ------------------------------- *)

\* C1: a handleError call made while the cursor is inside the list moves the
\* cursor to the smallest later index whose candidate is not known-bad once the
\* failing url has been recorded, shows that candidate and increments imageKey
\* by exactly 1; it ends past the list only when there is no such index.
C1_AdvanceToFirstUsable ==
    [][(lastOp' = "handleError" /\ currentIndex < Len(fallbackUrls)) =>
        LET urls   == fallbackUrls
            usable == {j \in (currentIndex + 1)..(Len(urls) - 1) :
                          ~KnownBad(urlCache, At(urls, j)) /\ At(urls, j) # currentSrc}
        IN IF usable = {}
           THEN currentIndex' >= Len(urls)
           ELSE LET j == CHOOSE m \in usable : \A k \in usable : m <= k
                IN /\ currentIndex' = j
                   /\ currentSrc' = At(urls, j)
                   /\ imageKey' = imageKey + 1]_vars

\* C1 witness: one call skipped a known-bad candidate and landed on a later one.
C1_Witness ==
    /\ lastOp = "handleError"
    /\ Count(console, "warn") >= 2
    /\ Count(console, "info") = 1
    /\ currentIndex < Len(fallbackUrls)
    /\ currentSrc = At(fallbackUrls, currentIndex)

\* C2 (skip law): a handleError call never shows a candidate the cache held as
\* false, never increments imageKey for it and never writes the "Trying to
\* load" line for it; when the next candidate is known-bad the cursor ends
\* beyond it.
C2_SkipLaw ==
    [][lastOp' = "handleError" =>
        /\ \A k \in 1..Len(console') :
              console'[k].level = "info" => ~KnownBad(urlCache, console'[k].url)
        /\ imageKey' # imageKey => ~KnownBad(urlCache, currentSrc')
        /\ currentSrc' # currentSrc => ~KnownBad(urlCache, currentSrc')
        /\ imageKey' - imageKey = Count(console', "info")
        /\ (/\ currentIndex + 1 < Len(fallbackUrls)
            /\ KnownBad(urlCache, At(fallbackUrls, currentIndex + 1)))
           => currentIndex' >= currentIndex + 2]_vars

\* C2 witness: a call walked over two or more candidates and exhausted the
\* list without showing any of them.
C2_Witness ==
    /\ lastOp = "handleError"
    /\ Count(console, "warn") >= 2
    /\ Count(console, "info") = 0
    /\ Len(fallbackUrls) >= 2

\* C3 (exhaustion): from an initializeImage with an empty cache, after exactly
\* fallbackUrls.length handleError calls in a row the cursor is past the list
\* and one error line has been written; and a handleError call made in the
\* terminal state changes nothing and writes nothing.
C3_ExhaustionThenNoOp ==
    [][lastOp' = "handleError" =>
        /\ (run'.fresh /\ run'.calls = Len(fallbackUrls))
           => (currentIndex' >= Len(fallbackUrls) /\ run'.errors = 1)
        /\ AllFailed => NoOp]_vars

\* C4: a handleError call that ends past the list leaves currentSrc and
\* imageKey as they were and writes exactly one error line, the last line of
\* the call, carrying the whole of fallbackUrls.
C4_ExhaustionFrame ==
    [][(lastOp' = "handleError" /\ currentIndex' >= Len(fallbackUrls)) =>
        /\ currentSrc' = currentSrc
        /\ imageKey' = imageKey
        /\ Count(console', "error") = 1
        /\ Count(console', "info") = 0
        /\ console'[Len(console')] = [level |-> "error", urls |-> fallbackUrls]]_vars

\* C4 witness: the list was exhausted at the end of a cascade of skips.
C4_Witness ==
    /\ lastOp = "handleError"
    /\ AllFailed
    /\ Count(console, "warn") >= 2
    /\ Count(console, "error") = 1
    /\ imageKey >= 2

\* C5 (no retries): a step that starts a new load attempt (imageKey changes)
\* never shows a url the cache already held as false.
C5_NoRetry ==
    [][imageKey' # imageKey => ~KnownBad(urlCache, currentSrc')]_vars

\* C6: initializeImage has run once when setup ends (imageKey is at least 1,
\* and the state it leaves has the cursor at 0 on the first candidate) and
\* runs on every change of src, ext, w or h; it puts the cursor at 0, shows the
\* first element of the new fallbackUrls, increments imageKey and leaves
\* urlCache as it was.
C6_Initialize ==
    [][/\ imageKey >= 1
       /\ lastOp = "initializeImage" =>
             (currentIndex = 0 /\ currentSrc = At(fallbackUrls, 0))
       /\ <<src, ext, w, h>>' # <<src, ext, w, h>> => lastOp' = "initializeImage"
       /\ lastOp' = "initializeImage" =>
             /\ currentIndex' = 0
             /\ currentSrc' = At(fallbackUrlsOf(src', ext', w', h', sizes'), 0)
             /\ imageKey' = imageKey + 1
             /\ urlCache' = urlCache]_vars

\* C6 witness: initializeImage ran on a prop change with failures in the cache.
C6_Witness ==
    /\ lastOp = "initializeImage"
    /\ imageKey >= 3
    /\ DOMAIN urlCache # {}
    /\ currentIndex = 0

\* C7: 0 <= currentIndex <= fallbackUrls.length in every reachable state.
C7_IndexInRange ==
    /\ 0 <= currentIndex
    /\ currentIndex <= Len(fallbackUrls)

\* C8: outside the terminal state currentSrc is fallbackUrls[currentIndex].
C8_CurrentIsCandidate ==
    ~AllFailed => currentSrc = At(fallbackUrls, currentIndex)

\* C9 (idempotence): a second initializeImage in a row with the same props
\* yields the same fallbackUrls and the same currentSrc, and currentIndex is 0
\* after each of the two.
C9_InitializeIdempotent ==
    [][initRun' >= 2 =>
        /\ fallbackUrlsOf(src', ext', w', h', sizes') = fallbackUrls
        /\ currentSrc' = currentSrc
        /\ currentIndex = 0
        /\ currentIndex' = 0]_vars

\* C9 witness: two runs in a row, after load errors had been handled.
C9_Witness ==
    /\ initRun >= 2
    /\ DOMAIN urlCache # {}
    /\ Len(fallbackUrls) >= 2

\* C10: fallbackUrls holds no string twice, holds exactly the strings pushed,
\* and orders them by their first occurrence in the pushed sequence.
C10_DedupFirstOccurrence ==
    LET raw  == rawUrls(src, ext, w, h, sizes)
        urls == fallbackUrls
    IN /\ \A i, j \in 1..Len(urls) : i # j => urls[i] # urls[j]
       /\ {urls[i] : i \in 1..Len(urls)} = {raw[i] : i \in 1..Len(raw)}
       /\ \A i, j \in 1..Len(urls) :
             i < j => FirstPos(raw, urls[i]) < FirstPos(raw, urls[j])

\* C10 witness: the primary url equals the unsized one and a size url lies
\* between them, so the pair contributes one element, at the primary's place.
C10_Witness ==
    LET raw == rawUrls(src, ext, w, h, sizes)
    IN /\ Len(raw) = 3
       /\ raw[1] = raw[3]
       /\ raw[2] # raw[1]
       /\ fallbackUrls = <<raw[1], raw[2]>>

(* --------------------- vocabulary of the url claims -------------------- *)

HasDot(s) == \E i \in 1..Len(s) : s[i] = "."

\* 1-based position of the last "." of a string that has one.
LastDot(s) == CHOOSE i \in 1..Len(s) :
                  s[i] = "." /\ \A k \in (i + 1)..Len(s) : s[k] # "."

\* The part before the last "." and the part from it on; a string without a
\* "." is all base and has no extension.
BaseOf(s) == IF HasDot(s) THEN SubSeq(s, 1, LastDot(s) - 1) ELSE s

DotExtOf(s) == IF HasDot(s) THEN SubSeq(s, LastDot(s), Len(s)) ELSE <<>>

\* src with its extension swapped to e (left alone when e is empty).
ExtSwapped(s, e) == IF e # <<>> THEN BaseOf(s) \o <<".">> \o e ELSE s

\* "__{w}x{h}" when both are non-zero.
SizeTag(pw, ph) ==
    IF pw # 0 /\ ph # 0
    THEN <<"_", "_">> \o NumToStr(pw) \o <<"x">> \o NumToStr(ph)
    ELSE <<>>

\* A url with the size tag put immediately before its extension.
Sized(url, pw, ph) == BaseOf(url) \o SizeTag(pw, ph) \o DotExtOf(url)

\* The elements of a sequence at the positions of their first occurrence, in
\* that order.
FirstOccurrences(raw) ==
    LET firsts == {i \in 1..Len(raw) : FirstPos(raw, raw[i]) = i}
    IN [k \in 1..Cardinality(firsts) |->
           raw[CHOOSE i \in firsts : Cardinality({j \in firsts : j <= i}) = k]]

(* ---------------------------- claims C11-C20 --------------------------- *)

\* The resized url of one entry of sizes: src with its extension swapped to
\* the entry's ext, else the props' ext, else "webp", sized by the entry's w
\* and h, else the props'; a field counts as given when it is truthy.
EntryUrl(size) ==
    LET extToUse == IF TruthyStr(size, "ext") THEN size.ext
                    ELSE IF ext # <<>> THEN ext ELSE Webp
        wToUse   == IF TruthyNum(size, "w") THEN size.w ELSE w
        hToUse   == IF TruthyNum(size, "h") THEN size.h ELSE h
    IN Sized(BaseOf(src) \o <<".">> \o extToUse, wToUse, hToUse)

\* C11: for every src, ext, w, h and sizes, fallbackUrls is the
\* first-occurrence de-duplication of: the primary url (src with its extension
\* swapped to ext, sized w x h), one resized url per entry of sizes in input
\* order, the extension-swapped unsized src; the documented example gives
\* ["/img/photo__100x50.webp", "/img/photo.webp"].
C11_ListComposition ==
    /\ fallbackUrls =
          FirstOccurrences(
              <<Sized(ExtSwapped(src, ext), w, h)>>
              \o [i \in 1..Len(sizes) |-> EntryUrl(sizes[i])]
              \o <<ExtSwapped(src, ext)>>)
    /\ (src = Photo /\ w = 100 /\ h = 50 /\ ext = Webp /\ sizes = <<>>) =>
          fallbackUrls =
              << <<"/", "i", "m", "g", "/", "p", "h", "o", "t", "o",
                   "_", "_", "1", "0", "0", "x", "5", "0", ".", "w", "e", "b", "p">>,
                 <<"/", "i", "m", "g", "/", "p", "h", "o", "t", "o",
                   ".", "w", "e", "b", "p">> >>

\* C12: the url of sizes[i] is built with the entry's own w, h and ext
\* whenever the field is present in the entry (a present 0 is used as given),
\* and with the props' w, h or ext only when the field is absent.
C12_VariantFieldsWhenPresent ==
    \A i \in 1..Len(sizes) :
        LET size     == sizes[i]
            extToUse == IF Has(size, "ext") THEN size.ext
                        ELSE IF ext # <<>> THEN ext ELSE Webp
            wToUse   == IF Has(size, "w") THEN size.w ELSE w
            hToUse   == IF Has(size, "h") THEN size.h ELSE h
        IN rawUrls(src, ext, w, h, sizes)[i + 1] =
              Sized(BaseOf(src) \o <<".">> \o extToUse, wToUse, hToUse)

\* C20: when src is the empty string fallbackUrls is empty and
\* initializeImage leaves currentIndex = 0 and currentSrc = ''; for a
\* non-empty list it leaves currentSrc = fallbackUrls[0].
C20_EmptySrc ==
    /\ src = <<>> => fallbackUrls = <<>>
    /\ lastOp = "initializeImage" =>
          /\ currentIndex = 0
          /\ src = <<>> => currentSrc = <<>>
          /\ fallbackUrls # <<>> => currentSrc = fallbackUrls[1]

\* C14: for a src with a ".", makeResizedImageUrl returns base + sizeTag +
\* extension + densitySuffix: base is src up to its last ".", sizeTag is
\* "__{w}x{h}" exactly when w and h are both non-zero, extension is ".{ext}"
\* when an ext is given (whatever the original one) and the original extension
\* otherwise; an empty ext and a dens of 0 count as not given.
C14_ResizedUrlShape ==
    (helper.fn = "makeResizedImageUrl" /\ HasDot(helper.args.src)) =>
        LET a         == helper.args
            extension == IF Has(a, "ext") /\ a.ext # <<>>
                         THEN <<".">> \o a.ext ELSE DotExtOf(a.src)
            density   == IF Has(a, "dens") /\ a.dens # 0
                         THEN <<" ">> \o NumToStr(a.dens) \o <<"x">> ELSE <<>>
        IN helper.url = BaseOf(a.src) \o SizeTag(a.w, a.h) \o extension \o density

\* C14 witness: a call with both sizes non-zero, an ext other than the
\* original one and a density.
C14_Witness ==
    /\ helper.fn = "makeResizedImageUrl"
    /\ helper.args = [src |-> Photo, w |-> 100, h |-> 3, ext |-> Webp, dens |-> 2]
    /\ helper.url = <<"/", "i", "m", "g", "/", "p", "h", "o", "t", "o",
                      "_", "_", "1", "0", "0", "x", "3", ".", "w", "e", "b", "p",
                      " ", "2", "x">>

\* C17: urlCache is written only by handleError, only with false and only
\* for the url that was currentSrc when the error was reported: every warning
\* of the call names that url, a skipped candidate gets no entry and no
\* warning of its own, no entry is true, none is removed or changed.
C17_CacheWrites ==
    [][/\ urlCache' # urlCache => lastOp' = "handleError"
       /\ lastOp' = "handleError" =>
             /\ DOMAIN urlCache' = DOMAIN urlCache \cup {currentSrc}
             /\ \A k \in 1..Len(console') :
                   console'[k].level = "warn" => console'[k].url = currentSrc
       /\ \A u \in DOMAIN urlCache :
             u \in DOMAIN urlCache' /\ urlCache'[u] = urlCache[u]
       /\ \A u \in DOMAIN urlCache' : urlCache'[u] = FALSE]_vars

\* C17 witness: a call that skipped a candidate ended on a later one, and the
\* cache holds the failed url and the skipped one.
C17_Witness ==
    /\ lastOp = "handleError"
    /\ Count(console, "warn") >= 2
    /\ Count(console, "info") = 1
    /\ Cardinality(DOMAIN urlCache) >= 2
    /\ \A k \in 1..Len(console) :
          console[k].level = "warn" => console[k].url = console[1].url

\* C18: imageKey never decreases; it grows by exactly 1 on every
\* initializeImage and on every handleError that assigns currentSrc, and is
\* unchanged by every other step, so currentSrc never changes without
\* imageKey growing.
C18_KeyMonotone ==
    [][/\ imageKey' \in {imageKey, imageKey + 1}
       /\ lastOp' = "initializeImage" => imageKey' = imageKey + 1
       /\ (lastOp' = "handleError" /\ Count(console', "info") = 1) =>
             imageKey' = imageKey + 1
       /\ (lastOp' = "handleError" /\ Count(console', "info") = 0) =>
             (imageKey' = imageKey /\ currentSrc' = currentSrc)
       /\ lastOp' = "sizes" => imageKey' = imageKey
       /\ currentSrc' # currentSrc => imageKey' > imageKey]_vars

\* C18 witness: the key has grown by an initializeImage and by two advances.
C18_Witness ==
    /\ lastOp = "handleError"
    /\ Count(console, "info") = 1
    /\ imageKey >= 3
    /\ currentIndex = 2

\* C19: between two initializeImage runs, while fallbackUrls stays the same,
\* every handleError made inside the list moves currentIndex up, no step moves
\* it down, and no url is rendered a second time.
C19_CursorForward ==
    [][/\ (lastOp' = "handleError" /\ ~AllFailed) => currentIndex' > currentIndex
       /\ lastOp' # "initializeImage" => currentIndex' >= currentIndex
       /\ (lastOp' = "handleError" /\ imageKey' # imageKey) =>
             \A k \in 1..Len(run.shown) : run.shown[k] # currentSrc']_vars

\* C19 witness: three different urls have been rendered in a row.
C19_Witness ==
    /\ lastOp = "handleError"
    /\ Len(run.shown) >= 3
    /\ currentIndex = 2
    /\ run.shown = fallbackUrls

\* The index handleError must end on from index i: the smallest later one
\* whose url is neither held as false by `cache` nor the failed url itself,
\* or none (-1).
FirstUsable(urls, cache, failed, i) ==
    LET usable == {j \in (i + 1)..(Len(urls) - 1) :
                      ~KnownBad(cache, At(urls, j)) /\ At(urls, j) # failed}
    IN IF usable = {} THEN -1
       ELSE CHOOSE m \in usable : \A k \in usable : m <= k

\* C13: each instance owns its urlCache.  An operation of one instance leaves
\* the other instance's cache, cursor, currentSrc and imageKey as they were,
\* and a handleError of an instance ends on the first candidate that its own
\* cache does not hold as false, whatever the other instance has recorded.
C13_InstanceIsolation ==
    [][/\ lastOp' \in {"handleError", "initializeImage"} => other' = other
       /\ lastOp' \in {"other.handleError", "other.initializeImage"} =>
             UNCHANGED <<urlCache, currentIndex, currentSrc, imageKey>>
       /\ (lastOp' = "other.handleError" /\ other.currentIndex < Len(OtherUrls)) =>
             LET j == FirstUsable(OtherUrls, other.urlCache, other.currentSrc,
                                  other.currentIndex)
             IN IF j = -1
                THEN other'.currentIndex >= Len(OtherUrls)
                ELSE /\ other'.currentIndex = j
                     /\ other'.currentSrc = At(OtherUrls, j)
       /\ lastOp' = "other.handleError" =>
             DOMAIN other'.urlCache = DOMAIN other.urlCache \cup {other.currentSrc}
       /\ (lastOp' = "handleError" /\ currentIndex < Len(fallbackUrls)) =>
             LET j == FirstUsable(fallbackUrls, urlCache, currentSrc, currentIndex)
             IN IF j = -1
                THEN currentIndex' >= Len(fallbackUrls)
                ELSE currentIndex' = j /\ currentSrc' = At(fallbackUrls, j)]_vars

\* C13 witness: both instances have the same fallbackUrls, and the second has
\* just moved on to a url that the first one holds as false.
C13_Witness ==
    /\ other.mounted
    /\ lastOp = "other.handleError"
    /\ OtherUrls = fallbackUrls
    /\ other.currentIndex = 1
    /\ other.currentSrc = At(fallbackUrls, 1)
    /\ KnownBad(urlCache, other.currentSrc)
    /\ ~KnownBad(other.urlCache, other.currentSrc)

\* The step delivered the error event of a load that the <img> now rendered
\* did not start.
StaleErrorDelivered == host'.last.key # 0 /\ host'.last.key # imageKey

\* C15: an error event of a superseded load attempt is handled exactly like
\* one of the current attempt: handleError runs, records the url that is
\* displayed now (not the one whose load failed) as false and moves the cursor
\* forward, to the first later candidate that is not known-bad.
C15_StaleErrorHandled ==
    [][StaleErrorDelivered =>
          /\ lastOp' = "handleError"
          /\ KnownBad(urlCache', currentSrc)
          /\ DOMAIN urlCache' = DOMAIN urlCache \cup {currentSrc}
          /\ currentIndex' > currentIndex
          /\ currentIndex < Len(fallbackUrls) =>
                LET j == FirstUsable(fallbackUrls, urlCache, currentSrc,
                                     currentIndex)
                IN IF j = -1
                   THEN currentIndex' >= Len(fallbackUrls)
                   ELSE currentIndex' = j /\ currentSrc' = At(fallbackUrls, j)]_vars

\* C15 witness: a handleError call has just skipped a candidate that the cache
\* holds as false although no load of that url ever failed.
C15_Witness ==
    /\ host.tracked
    /\ lastOp = "handleError"
    /\ Count(console, "warn") >= 2
    /\ currentIndex >= 2 /\ currentIndex <= Len(fallbackUrls)
    /\ KnownBad(urlCache, At(fallbackUrls, currentIndex - 1))
    /\ At(fallbackUrls, currentIndex - 1) \notin host.failed

\* C16: a handleError call makes at most as many (recursive) calls as there
\* are candidates after the cursor, one when the cursor is already past the
\* list; and when every load of the rendered <img> ends, each initializeImage
\* is followed by a state where the rendered candidate has loaded or the cursor
\* is past the list, after at most Len(fallbackUrls) error events handled
\* inside the list.
C16_Termination ==
    /\ [][lastOp' = "handleError" =>
             Count(console', "warn") <= Max(1, Len(fallbackUrls) - currentIndex)]_vars
    /\ [](run.events <= Len(fallbackUrls))
    /\ (lastOp = "initializeImage") ~> (host.loaded \/ AllFailed)

\* C16 witness: every one of three candidates was rendered and failed in turn,
\* and the third error event has put the cursor past the list.
C16_Witness ==
    /\ host.tracked
    /\ lastOp = "handleError"
    /\ Len(fallbackUrls) = 3
    /\ run.events = 3
    /\ AllFailed
    /\ ~host.loaded

=============================================================================
